---- MODULE Spec2Model ----
(***************************************************************************)
(* Revive Engine: the durable step/replay engine (DurableContext) and the  *)
(* App component that drives it (Run/Resume, Simulate Crash, Reset State). *)
(*                                                                         *)
(* One action is one macrotask of the browser's event loop: a click        *)
(* handler together with the React commit and effect flush it causes, or a *)
(* timer / work completion together with the promise continuations         *)
(* (microtasks) that run after it.  The log (addLog) and the timestamps    *)
(* (Date.now()) are observational and are not part of the state; the       *)
(* branch of runWorkflow that ends a pass is kept in the pass's pc.        *)
(***************************************************************************)
EXTENDS Integers, Sequences, FiniteSets, TLC

\* Number of Run/Resume clicks explored.
MaxPasses == 2

WORKFLOW_ID == "onboarding-wf-001"

PENDING == "PENDING"
RUNNING == "RUNNING"
COMPLETED == "COMPLETED"
FAILED == "FAILED"
StepStatus == {PENDING, RUNNING, COMPLETED, FAILED}

WORKFLOW_INTERRUPTED == "WORKFLOW_INTERRUPTED"

\* JavaScript's null and undefined, as record field values.
Null == "null"
Undefined == "undefined"

\* The step calls of runWorkflow, in source order: step 1, the two branches
\* of parallel (2 and 3), step 4.
Steps == 1..4
Branches == {2, 3}

\* The labels of the four step calls of runWorkflow; and, for workflows that
\* repeat a label, the same calls under one label (the README's loop).
CodeLabels ==
    <<"Create Employee Record", "Provision Laptop", "Configure Access", "Send Welcome Email">>
LoopLabels == <<"Send Email", "Send Email", "Send Email", "Send Email">>

\* What the work of step call i returns when it succeeds.
WorkResult(i) ==
    CASE i = 1 -> "E101"
      [] i = 2 -> "MacBook Pro M3 Pro"
      [] i = 3 -> "Slack,GitHub,Jira"
      [] OTHER -> "sent"

\* How a work can end: success, or an Error with one of these messages.
ErrorMessages == {"boom", WORKFLOW_INTERRUPTED}
WorkOutcomes == {"ok"} \cup ErrorMessages

VARIABLES
    db,            \* App state db: StepRecord[]
    isRunning,     \* App state isRunning
    isCrashed,     \* App state isCrashed
    isCrashedRef,  \* isCrashedRef.current, what the engine's isInterrupted() reads
    labels,        \* the labels of the workflow's step calls
    passes         \* one DurableContext and runWorkflow activation per Run/Resume click
vars == <<db, isRunning, isCrashed, isCrashedRef, labels, passes>>

StepRecordOf(stepKey, id, sequence, status, result, error) ==
    [workflowId |-> WORKFLOW_ID, stepKey |-> stepKey, id |-> id, sequence |-> sequence,
     status |-> status, result |-> result, error |-> error]

\* A key made of the label alone.
StepKeyLabelOnly(id, sequence) == id

\* `${id}_seq_${sequence}`
StepKey(id, sequence) == id \o "_seq_" \o ToString(sequence)

Min(S) == CHOOSE x \in S : \A y \in S : x <= y

\* Array.findIndex(r => r.stepKey === stepKey), 1-based, 0 when there is none.
FindIndex(d, stepKey) ==
    LET hits == {k \in 1..Len(d) : d[k].stepKey = stepKey}
    IN IF hits = {} THEN 0 ELSE Min(hits)

\* this.db.find(r => r.workflowId === this.workflowId && r.stepKey === stepKey),
\* as an index, 0 when there is none.
FindExisting(d, workflowId, stepKey) ==
    LET hits == {k \in 1..Len(d) : d[k].workflowId = workflowId /\ d[k].stepKey = stepKey}
    IN IF hits = {} THEN 0 ELSE Min(hits)

\* A store that appends every write instead of replacing the record of the
\* same stepKey.
HandleStepUpdateAppend(prev, record) == Append(prev, record)

\* handleStepUpdate: upsert by stepKey.
HandleStepUpdate(prev, record) ==
    LET idx == FindIndex(prev, record.stepKey)
    IN IF idx >= 1 THEN [prev EXCEPT ![idx] = record] ELSE Append(prev, record)

\* A pass before its Run/Resume click.  pc is the await runWorkflow is at, or
\* the way it ended; spc[i] the state of the promise of step call i; seq, ret
\* and serr the sequence number, the value returned and the message of the
\* error thrown by step call i; parRet what parallel returned.  ran[i] (work
\* of step call i was invoked) and shared (another pass was live while this
\* one was) are history, read by the properties only.
IdlePass ==
    [pc |-> "idle", failMsg |-> Undefined, ctxDb |-> <<>>, sequenceCounter |-> 0,
     spc |-> [i \in Steps |-> "none"], seq |-> [i \in Steps |-> 0],
     ret |-> [i \in Steps |-> Undefined], serr |-> [i \in Steps |-> Undefined],
     ran |-> [i \in Steps |-> FALSE], parRet |-> <<>>, shared |-> FALSE]

\* A context that restores its counter from the size of the store.
NewContextPersisted(d) ==
    [IdlePass EXCEPT !.pc = "step1", !.ctxDb = d, !.sequenceCounter = Len(d)]

\* new DurableContext(WORKFLOW_ID, db, ...): sequenceCounter 0, db the array
\* of the render in which the button was clicked.
NewContext(d) == [IdlePass EXCEPT !.pc = "step1", !.ctxDb = d]

\* step without the memoization check: a COMPLETED record is executed again.
StepCallNoMemo(S, i, interrupted) ==
    LET sequence == S.P.sequenceCounter + 1
        id == labels[i]
        stepKey == StepKey(id, sequence)
        P1 == [S.P EXCEPT !.sequenceCounter = sequence, !.seq[i] = sequence]
        runningRecord == StepRecordOf(stepKey, id, sequence, RUNNING, Null, Undefined)
    IN IF interrupted
       THEN [S EXCEPT !.P = [P1 EXCEPT !.spc[i] = "rejected", !.serr[i] = WORKFLOW_INTERRUPTED]]
       ELSE [S EXCEPT !.db = HandleStepUpdate(S.db, runningRecord),
                      !.P = [P1 EXCEPT !.spc[i] = "delay"]]

\* step that trusts any stored record, whatever its status.
StepCallTrustAny(S, i, interrupted) ==
    LET sequence == S.P.sequenceCounter + 1
        id == labels[i]
        stepKey == StepKey(id, sequence)
        ex == FindExisting(S.P.ctxDb, WORKFLOW_ID, stepKey)
        P1 == [S.P EXCEPT !.sequenceCounter = sequence, !.seq[i] = sequence]
        runningRecord == StepRecordOf(stepKey, id, sequence, RUNNING, Null, Undefined)
    IN IF ex >= 1
       THEN [S EXCEPT !.P = [P1 EXCEPT !.spc[i] = "resolved", !.ret[i] = S.P.ctxDb[ex].result]]
       ELSE IF interrupted
       THEN [S EXCEPT !.P = [P1 EXCEPT !.spc[i] = "rejected", !.serr[i] = WORKFLOW_INTERRUPTED]]
       ELSE [S EXCEPT !.db = HandleStepUpdate(S.db, runningRecord),
                      !.P = [P1 EXCEPT !.spc[i] = "delay"]]

\* step that also trusts a FAILED record and returns its result.
StepCallTrustFailed(S, i, interrupted) ==
    LET sequence == S.P.sequenceCounter + 1
        id == labels[i]
        stepKey == StepKey(id, sequence)
        ex == FindExisting(S.P.ctxDb, WORKFLOW_ID, stepKey)
        P1 == [S.P EXCEPT !.sequenceCounter = sequence, !.seq[i] = sequence]
        runningRecord == StepRecordOf(stepKey, id, sequence, RUNNING, Null, Undefined)
    IN IF ex >= 1 /\ S.P.ctxDb[ex].status \in {COMPLETED, FAILED}
       THEN [S EXCEPT !.P = [P1 EXCEPT !.spc[i] = "resolved", !.ret[i] = S.P.ctxDb[ex].result]]
       ELSE IF interrupted
       THEN [S EXCEPT !.P = [P1 EXCEPT !.spc[i] = "rejected", !.serr[i] = WORKFLOW_INTERRUPTED]]
       ELSE [S EXCEPT !.db = HandleStepUpdate(S.db, runningRecord),
                      !.P = [P1 EXCEPT !.spc[i] = "delay"]]

\* step in which a memoized hit does not consume a sequence number.
StepCallMemoFree(S, i, interrupted) ==
    LET sequence == S.P.sequenceCounter + 1
        id == labels[i]
        stepKey == StepKey(id, sequence)
        ex == FindExisting(S.P.ctxDb, WORKFLOW_ID, stepKey)
        P1 == [S.P EXCEPT !.sequenceCounter = sequence, !.seq[i] = sequence]
        runningRecord == StepRecordOf(stepKey, id, sequence, RUNNING, Null, Undefined)
    IN IF ex >= 1 /\ S.P.ctxDb[ex].status = COMPLETED
       THEN [S EXCEPT !.P = [S.P EXCEPT !.seq[i] = sequence, !.spc[i] = "resolved",
                                        !.ret[i] = S.P.ctxDb[ex].result]]
       ELSE IF interrupted
       THEN [S EXCEPT !.P = [P1 EXCEPT !.spc[i] = "rejected", !.serr[i] = WORKFLOW_INTERRUPTED]]
       ELSE [S EXCEPT !.db = HandleStepUpdate(S.db, runningRecord),
                      !.P = [P1 EXCEPT !.spc[i] = "delay"]]

\* step that writes its RUNNING record before it polls the signal.
StepCallWriteFirst(S, i, interrupted) ==
    LET sequence == S.P.sequenceCounter + 1
        id == labels[i]
        stepKey == StepKey(id, sequence)
        ex == FindExisting(S.P.ctxDb, WORKFLOW_ID, stepKey)
        P1 == [S.P EXCEPT !.sequenceCounter = sequence, !.seq[i] = sequence]
        runningRecord == StepRecordOf(stepKey, id, sequence, RUNNING, Null, Undefined)
    IN IF ex >= 1 /\ S.P.ctxDb[ex].status = COMPLETED
       THEN [S EXCEPT !.P = [P1 EXCEPT !.spc[i] = "resolved", !.ret[i] = S.P.ctxDb[ex].result]]
       ELSE IF interrupted
       THEN [S EXCEPT !.db = HandleStepUpdate(S.db, runningRecord),
                      !.P = [P1 EXCEPT !.spc[i] = "rejected", !.serr[i] = WORKFLOW_INTERRUPTED]]
       ELSE [S EXCEPT !.db = HandleStepUpdate(S.db, runningRecord),
                      !.P = [P1 EXCEPT !.spc[i] = "delay"]]

\* step that builds its RUNNING record from the stored record when there is
\* one, changing the status only.
StepCallKeepFields(S, i, interrupted) ==
    LET sequence == S.P.sequenceCounter + 1
        id == labels[i]
        stepKey == StepKey(id, sequence)
        ex == FindExisting(S.P.ctxDb, WORKFLOW_ID, stepKey)
        P1 == [S.P EXCEPT !.sequenceCounter = sequence, !.seq[i] = sequence]
        runningRecord == IF ex >= 1
                         THEN [S.P.ctxDb[ex] EXCEPT !.status = RUNNING]
                         ELSE StepRecordOf(stepKey, id, sequence, RUNNING, Null, Undefined)
    IN IF ex >= 1 /\ S.P.ctxDb[ex].status = COMPLETED
       THEN [S EXCEPT !.P = [P1 EXCEPT !.spc[i] = "resolved", !.ret[i] = S.P.ctxDb[ex].result]]
       ELSE IF interrupted
       THEN [S EXCEPT !.P = [P1 EXCEPT !.spc[i] = "rejected", !.serr[i] = WORKFLOW_INTERRUPTED]]
       ELSE [S EXCEPT !.db = HandleStepUpdate(S.db, runningRecord),
                      !.P = [P1 EXCEPT !.spc[i] = "delay"]]

\* The synchronous part of DurableContext.step for step call i: the part
\* before the first await.  S = [db, isRunning, P], interrupted the value
\* isInterrupted() returns.
StepCall(S, i, interrupted) ==
    LET sequence == S.P.sequenceCounter + 1
        id == labels[i]
        stepKey == StepKey(id, sequence)
        ex == FindExisting(S.P.ctxDb, WORKFLOW_ID, stepKey)
        P1 == [S.P EXCEPT !.sequenceCounter = sequence, !.seq[i] = sequence]
        runningRecord == StepRecordOf(stepKey, id, sequence, RUNNING, Null, Undefined)
    IN IF ex >= 1 /\ S.P.ctxDb[ex].status = COMPLETED
       THEN [S EXCEPT !.P = [P1 EXCEPT !.spc[i] = "resolved", !.ret[i] = S.P.ctxDb[ex].result]]
       ELSE IF interrupted
       THEN [S EXCEPT !.P = [P1 EXCEPT !.spc[i] = "rejected", !.serr[i] = WORKFLOW_INTERRUPTED]]
       ELSE [S EXCEPT !.db = HandleStepUpdate(S.db, runningRecord),
                      !.P = [P1 EXCEPT !.spc[i] = "delay"]]

\* The catch block of runWorkflow.
Catch(S, message) ==
    [S EXCEPT !.isRunning = FALSE,
              !.P = [S.P EXCEPT !.pc = IF message = WORKFLOW_INTERRUPTED
                                       THEN "interrupted" ELSE "failed",
                                !.failMsg = message]]

\* A parallel that waits for every branch to settle before it fails.
ParallelStateSettled(P) ==
    IF \E b \in Branches : P.spc[b] \notin {"resolved", "rejected"} THEN "pending"
    ELSE IF \E b \in Branches : P.spc[b] = "rejected" THEN "rejected"
    ELSE "resolved"

\* Promise.all over the two branch promises: "rejected" as soon as one is
\* rejected (with the first rejection), "resolved" when both are resolved.
ParallelState(P) ==
    IF \E b \in Branches : P.spc[b] = "rejected" THEN "rejected"
    ELSE IF \A b \in Branches : P.spc[b] = "resolved" THEN "resolved"
    ELSE "pending"

\* The rejection Promise.all settles with.  Both branches are rejected while
\* parallel is still pending only when both were rejected in their synchronous
\* parts, in input order.
ParallelError(P) == P.serr[Min({b \in Branches : P.spc[b] = "rejected"})]

\* Results collected against input order.
ParallelResultReversed(P) == <<P.ret[3], P.ret[2]>>

\* The array Promise.all resolves with: the branches' values in input order.
ParallelResult(P) == <<P.ret[2], P.ret[3]>>

\* error.message || 'Unknown error'
ErrorText(message) == IF message = "" THEN "Unknown error" ELSE message

\* A runWorkflow that builds the branch list in the other order.
RECURSIVE RunMainSwapped(_, _)
RunMainSwapped(S, interrupted) ==
    CASE S.P.pc = "step1" ->
           IF S.P.spc[1] = "resolved"
           THEN LET S3 == StepCall(S, 3, interrupted)
                    S2 == StepCall(S3, 2, interrupted)
                IN RunMainSwapped([S2 EXCEPT !.P.pc = "parallel"], interrupted)
           ELSE IF S.P.spc[1] = "rejected" THEN Catch(S, S.P.serr[1])
           ELSE S
      [] S.P.pc = "parallel" ->
           IF ParallelState(S.P) = "rejected" THEN Catch(S, ParallelError(S.P))
           ELSE IF ParallelState(S.P) = "resolved"
           THEN RunMainSwapped([StepCall([S EXCEPT !.P.parRet = ParallelResult(S.P)], 4, interrupted)
                                  EXCEPT !.P.pc = "step4"], interrupted)
           ELSE S
      [] S.P.pc = "step4" ->
           IF S.P.spc[4] = "resolved"
           THEN [S EXCEPT !.isRunning = FALSE, !.P.pc = "success"]
           ELSE IF S.P.spc[4] = "rejected" THEN Catch(S, S.P.serr[4])
           ELSE S
      [] OTHER -> S

\* The body of runWorkflow's try block from its current await on, run until
\* the next await that has to wait.
RECURSIVE RunMain(_, _)
RunMain(S, interrupted) ==
    CASE S.P.pc = "step1" ->
           IF S.P.spc[1] = "resolved"
           THEN LET S2 == StepCall(S, 2, interrupted)
                    S3 == StepCall(S2, 3, interrupted)
                IN RunMain([S3 EXCEPT !.P.pc = "parallel"], interrupted)
           ELSE IF S.P.spc[1] = "rejected" THEN Catch(S, S.P.serr[1])
           ELSE S
      [] S.P.pc = "parallel" ->
           IF ParallelState(S.P) = "rejected" THEN Catch(S, ParallelError(S.P))
           ELSE IF ParallelState(S.P) = "resolved"
           THEN RunMain([StepCall([S EXCEPT !.P.parRet = ParallelResult(S.P)], 4, interrupted)
                           EXCEPT !.P.pc = "step4"], interrupted)
           ELSE S
      [] S.P.pc = "step4" ->
           IF S.P.spc[4] = "resolved"
           THEN [S EXCEPT !.isRunning = FALSE, !.P.pc = "success"]
           ELSE IF S.P.spc[4] = "rejected" THEN Catch(S, S.P.serr[4])
           ELSE S
      [] OTHER -> S

Started == {p \in 1..MaxPasses : passes[p].pc # "idle"}

\* A pass is live while runWorkflow has not ended or one of its step calls
\* still has a timer or a work pending.
MainEnded(P) == P.pc \in {"success", "interrupted", "failed"}
Live(P) == P.pc # "idle" /\ (~MainEnded(P) \/ \E i \in Steps : P.spc[i] \in {"delay", "work"})

Init ==
    /\ db = <<>>
    /\ isRunning = FALSE
    /\ isCrashed = FALSE
    /\ isCrashedRef = FALSE
    /\ labels = CodeLabels
    /\ passes = [p \in 1..MaxPasses |-> IdlePass]

\* The same engine driven by a workflow that repeats one label.
InitLabels ==
    /\ db = <<>>
    /\ isRunning = FALSE
    /\ isCrashed = FALSE
    /\ isCrashedRef = FALSE
    /\ labels = LoopLabels
    /\ passes = [p \in 1..MaxPasses |-> IdlePass]

\* Click on Run/Resume.  The first step call runs inside the click handler,
\* before React commits setIsCrashed(false) and the effect copies it to
\* isCrashedRef; the continuations after the first await run after that.
RunWorkflow ==
    /\ ~isRunning
    /\ Cardinality(Started) < MaxPasses
    /\ LET p == Cardinality(Started) + 1
           S0 == [db |-> db, isRunning |-> TRUE, P |-> NewContext(db)]
           S1 == StepCall(S0, 1, isCrashedRef)
           S2 == RunMain(S1, FALSE)
       IN /\ db' = S2.db
          /\ isRunning' = S2.isRunning
          /\ passes' = [q \in 1..MaxPasses |->
                          IF q = p THEN [S2.P EXCEPT !.shared = \E r \in Started : Live(passes[r])]
                          ELSE IF Live(passes[q]) THEN [passes[q] EXCEPT !.shared = TRUE]
                          ELSE passes[q]]
    /\ isCrashed' = FALSE
    /\ isCrashedRef' = FALSE
    /\ UNCHANGED labels

\* Click on Simulate Crash (the button is disabled unless isRunning).
SimulateCrash ==
    /\ isRunning
    /\ isCrashed' = TRUE
    /\ isCrashedRef' = TRUE
    /\ isRunning' = FALSE
    /\ UNCHANGED <<db, labels, passes>>

\* Click on Reset State.
ClearStorage ==
    /\ db' = <<>>
    /\ isCrashed' = FALSE
    /\ isCrashedRef' = FALSE
    /\ isRunning' = FALSE
    /\ UNCHANGED <<labels, passes>>

\* A timer handler that goes on to the work without the crash check.
TimerFiredNoPoll(p, i) ==
    /\ passes[p].spc[i] = "delay"
    /\ passes' = [passes EXCEPT ![p].spc[i] = "work", ![p].ran[i] = TRUE]
    /\ UNCHANGED <<db, isRunning, isCrashed, isCrashedRef, labels>>

\* The 1500 ms timer of step call i of pass p fires: the second crash check,
\* then fn() is invoked.
TimerFired(p, i) ==
    /\ passes[p].spc[i] = "delay"
    /\ LET S == [db |-> db, isRunning |-> isRunning, P |-> passes[p]]
           S1 == IF isCrashedRef
                 THEN RunMain([S EXCEPT !.P.spc[i] = "rejected",
                                        !.P.serr[i] = WORKFLOW_INTERRUPTED], isCrashedRef)
                 ELSE [S EXCEPT !.P.spc[i] = "work", !.P.ran[i] = TRUE]
       IN /\ db' = S1.db
          /\ isRunning' = S1.isRunning
          /\ passes' = [passes EXCEPT ![p] = S1.P]
    /\ UNCHANGED <<isCrashed, isCrashedRef, labels>>

\* A step that polls the signal once more when its work has ended and
\* commits nothing when it finds it asserted.
WorkSettledPolled(p, i, outcome) ==
    /\ passes[p].spc[i] = "work"
    /\ LET S == [db |-> db, isRunning |-> isRunning, P |-> passes[p]]
           sequence == S.P.seq[i]
           id == labels[i]
           stepKey == StepKey(id, sequence)
           completedRecord ==
               StepRecordOf(stepKey, id, sequence, COMPLETED, WorkResult(i), Undefined)
           failedRecord ==
               StepRecordOf(stepKey, id, sequence, FAILED, Null,
                            ErrorText(outcome))
           S1 == IF isCrashedRef \/ outcome = WORKFLOW_INTERRUPTED
                 THEN [S EXCEPT !.P.spc[i] = "rejected", !.P.serr[i] = WORKFLOW_INTERRUPTED]
                 ELSE IF outcome = "ok"
                 THEN [S EXCEPT !.db = HandleStepUpdate(S.db, completedRecord),
                                !.P.spc[i] = "resolved", !.P.ret[i] = WorkResult(i)]
                 ELSE [S EXCEPT !.db = HandleStepUpdate(S.db, failedRecord),
                                !.P.spc[i] = "rejected", !.P.serr[i] = outcome]
           S2 == RunMain(S1, isCrashedRef)
       IN /\ db' = S2.db
          /\ isRunning' = S2.isRunning
          /\ passes' = [passes EXCEPT ![p] = S2.P]
    /\ UNCHANGED <<isCrashed, isCrashedRef, labels>>

\* The promise of fn() settles: the commit of COMPLETED, or the catch block
\* of step, then the continuations of runWorkflow.
WorkSettled(p, i, outcome) ==
    /\ passes[p].spc[i] = "work"
    /\ LET S == [db |-> db, isRunning |-> isRunning, P |-> passes[p]]
           sequence == S.P.seq[i]
           id == labels[i]
           stepKey == StepKey(id, sequence)
           completedRecord ==
               StepRecordOf(stepKey, id, sequence, COMPLETED, WorkResult(i), Undefined)
           failedRecord ==
               StepRecordOf(stepKey, id, sequence, FAILED, Null,
                            ErrorText(outcome))
           S1 == IF outcome = "ok"
                 THEN [S EXCEPT !.db = HandleStepUpdate(S.db, completedRecord),
                                !.P.spc[i] = "resolved", !.P.ret[i] = WorkResult(i)]
                 ELSE IF outcome = WORKFLOW_INTERRUPTED
                 THEN [S EXCEPT !.P.spc[i] = "rejected", !.P.serr[i] = outcome]
                 ELSE [S EXCEPT !.db = HandleStepUpdate(S.db, failedRecord),
                                !.P.spc[i] = "rejected", !.P.serr[i] = outcome]
           S2 == RunMain(S1, isCrashedRef)
       IN /\ db' = S2.db
          /\ isRunning' = S2.isRunning
          /\ passes' = [passes EXCEPT ![p] = S2.P]
    /\ UNCHANGED <<isCrashed, isCrashedRef, labels>>

Next ==
    \/ RunWorkflow
    \/ SimulateCrash
    \/ \E p \in 1..MaxPasses, i \in Steps : TimerFired(p, i)
    \/ \E p \in 1..MaxPasses, i \in Steps, o \in WorkOutcomes : WorkSettled(p, i, o)

\* Run/Resume, Simulate Crash and the engine's own steps.
Spec == Init /\ [][Next]_vars

\* The browser's event loop runs every timer that is due and every
\* continuation of a work that has ended; every work ends.
Fairness ==
    \A p \in 1..MaxPasses, i \in Steps :
       /\ WF_vars(TimerFired(p, i))
       /\ WF_vars(\E o \in WorkOutcomes : WorkSettled(p, i, o))

\* Spec with the event loop making progress.
SpecFair == Spec /\ Fairness

\* The same for the workflow that repeats one label.
SpecLabels == InitLabels /\ [][Next]_vars

\* The same with the Reset State button.
NextReset == Next \/ ClearStorage
SpecReset == Init /\ [][NextReset]_vars

\* The engine and the store under two workflow execution ids: the id is a
\* parameter of DurableContext's constructor, the store is the one array
\* handleStepUpdate maintains.
WorkflowIds == {WORKFLOW_ID, "onboarding-wf-002"}

\* The record a context of workflowId builds.
StepRecordFor(workflowId, stepKey, id, sequence, status, result, error) ==
    [StepRecordOf(stepKey, id, sequence, status, result, error) EXCEPT !.workflowId = workflowId]

\* How one step invocation ends: its work returns, its work throws, or it is
\* aborted by the signal after its RUNNING write.
StepEndings == {"ok", "boom", "aborted"}

\* One whole invocation of step call i by a context of workflow execution w
\* that is not memoized: the lookup by workflowId and stepKey, the RUNNING
\* write and the write of its ending.
StepOfWorkflow(w, i, ending) ==
    LET sequence == i
        id == labels[i]
        stepKey == StepKey(id, sequence)
        ex == FindExisting(db, w, stepKey)
        runningRecord == StepRecordFor(w, stepKey, id, sequence, RUNNING, Null, Undefined)
        completedRecord ==
            StepRecordFor(w, stepKey, id, sequence, COMPLETED, WorkResult(i), Undefined)
        failedRecord == StepRecordFor(w, stepKey, id, sequence, FAILED, Null, ErrorText(ending))
        d1 == HandleStepUpdate(db, runningRecord)
    IN /\ ~(ex >= 1 /\ db[ex].status = COMPLETED)
       /\ db' = CASE ending = "ok" -> HandleStepUpdate(d1, completedRecord)
                  [] ending = "aborted" -> d1
                  [] OTHER -> HandleStepUpdate(d1, failedRecord)
       /\ UNCHANGED <<isRunning, isCrashed, isCrashedRef, labels, passes>>

NextIds == \E w \in WorkflowIds, i \in Steps, e \in StepEndings : StepOfWorkflow(w, i, e)

\* Step invocations of two workflow executions against one store.
SpecIds == Init /\ [][NextIds]_vars

Passes == 1..MaxPasses

\* The stepKey step call i of pass P works under.
KeyOfCall(P, i) == StepKey(labels[i], P.seq[i])

\* The status of the record stored under stepKey in d, "absent" without one.
StatusAt(d, stepKey) ==
    IF FindIndex(d, stepKey) = 0 THEN "absent" ELSE d[FindIndex(d, stepKey)].status

\* The record stored under stepKey in d, as a sequence of at most one record.
RecAt(d, stepKey) ==
    IF FindIndex(d, stepKey) = 0 THEN <<>> ELSE <<d[FindIndex(d, stepKey)]>>

\* Pass q and the passes before it ran one at a time: none was started while
\* another was live (the single-writer case).
OneAtATime(q) == \A p \in 1..q : ~passes[p].shared

\* Step call i of pass P found a COMPLETED record in the store it was given.
FoundCompleted(P, i) ==
    /\ P.spc[i] # "none"
    /\ FindExisting(P.ctxDb, WORKFLOW_ID, KeyOfCall(P, i)) >= 1
    /\ P.ctxDb[FindExisting(P.ctxDb, WORKFLOW_ID, KeyOfCall(P, i))].status = COMPLETED

\* Pass P invoked the work of step call i and the work returned.
WorkReturned(P, i) == P.ran[i] /\ P.spc[i] = "resolved"

(***************************************************************************)
(* C1. Idempotent replay.  A step call that finds a COMPLETED record in    *)
(* the store its pass was started with returns the stored result and its   *)
(* work is not invoked; and over passes that re-run the workflow against   *)
(* the store left by the earlier passes (the passes ran one at a time), a   *)
(* work that an earlier pass ran to its COMPLETED record is never invoked  *)
(* again, and the replayed step returns what is stored.                    *)
(***************************************************************************)
IdempotentReplay ==
    /\ \A p \in Passes, i \in Steps :
          FoundCompleted(passes[p], i) =>
             /\ passes[p].spc[i] = "resolved"
             /\ ~passes[p].ran[i]
             /\ passes[p].ret[i] =
                  passes[p].ctxDb[FindExisting(passes[p].ctxDb, WORKFLOW_ID,
                                               KeyOfCall(passes[p], i))].result
    /\ \A q \in Passes : OneAtATime(q) =>
          \A p \in 1..(q - 1), i \in Steps :
             WorkReturned(passes[p], i) /\ passes[q].spc[i] # "none" =>
                /\ ~passes[q].ran[i]
                /\ passes[q].spc[i] = "resolved"
                /\ passes[q].ret[i] = passes[p].ret[i]
                /\ RecAt(db, KeyOfCall(passes[q], i)) =
                      <<StepRecordOf(KeyOfCall(passes[p], i), labels[i], i, COMPLETED,
                                     passes[p].ret[i], Undefined)>>

\* A replay pass returned a step from the store that an earlier pass executed.
IdempotentReplayWitness ==
    \E q \in Passes, i \in Steps :
       /\ OneAtATime(q)
       /\ passes[q].spc[i] = "resolved" /\ ~passes[q].ran[i]
       /\ \E p \in 1..(q - 1) : WorkReturned(passes[p], i)

(***************************************************************************)
(* C2. Crash and resume of [stepA, parallel[stepB, stepC], stepD].  A pass *)
(* that resumes after the earlier passes ended (one pass at a time), is    *)
(* not interrupted and whose works do not fail ends in success, with sequence *)
(* number i for step call i, a COMPLETED record under that number for each *)
(* step, the steps found COMPLETED returned from the store without their   *)
(* work and exactly the other steps executed.                              *)
(***************************************************************************)
CrashResume ==
    \A q \in Passes :
       (/\ OneAtATime(q)
        /\ MainEnded(passes[q])
        /\ \A i \in Steps : passes[q].spc[i] # "rejected") =>
           /\ passes[q].pc = "success"
           /\ \A i \in Steps :
                 /\ passes[q].seq[i] = i
                 /\ passes[q].spc[i] = "resolved"
                 /\ passes[q].ret[i] = WorkResult(i)
                 /\ passes[q].ran[i] <=> ~FoundCompleted(passes[q], i)
                 /\ RecAt(db, StepKey(labels[i], i)) =
                       <<StepRecordOf(StepKey(labels[i], i), labels[i], i, COMPLETED,
                                      WorkResult(i), Undefined)>>

\* The scenario: the first pass completed A, B and C and was interrupted
\* before D's work; the resume pass returned A, B, C from the store, executed
\* D at sequence 4 and reported success.
CrashResumeWitness ==
    /\ passes[1].pc = "interrupted"
    /\ \A i \in 1..3 : WorkReturned(passes[1], i)
    /\ ~passes[1].ran[4]
    /\ OneAtATime(2)
    /\ passes[2].pc = "success"
    /\ \A i \in 1..3 : ~passes[2].ran[i] /\ passes[2].ret[i] = WorkResult(i)
    /\ passes[2].ran[4] /\ passes[2].seq[4] = 4
    /\ StatusAt(db, StepKey(labels[4], 4)) = COMPLETED

\* The value isInterrupted() returns to step call i in this step: the first
\* step call runs in the click handler, before the effect has copied the
\* state to isCrashedRef; the other calls run in a task where it is settled.
PolledAtCall(i) == IF i = 1 THEN isCrashedRef ELSE isCrashedRef'

\* In this step, step call i of pass p polls the signal before its work
\* (at the call, or when its timer fires) and finds it asserted.
PolledAsserted(p, i) ==
    \/ /\ passes[p].spc[i] = "delay"
       /\ passes'[p].spc[i] # "delay"
       /\ isCrashedRef
    \/ /\ passes[p].spc[i] = "none"
       /\ passes'[p].spc[i] \notin {"none", "resolved"}
       /\ PolledAtCall(i)

\* In this step, the work of step call i of pass p ends by raising an error.
WorkRaises(p, i) == passes[p].spc[i] = "work" /\ passes'[p].spc[i] = "rejected"

\* In this step, the work of step call i of pass p ends (either way).
WorkEnds(p, i) == passes[p].spc[i] = "work" /\ passes'[p].spc[i] # "work"

(***************************************************************************)
(* C3 as stated: when the signal is found asserted before a step's work,   *)
(* the step's record is absent or PENDING and the pass reports             *)
(* Interrupted.                                                            *)
(***************************************************************************)
InterruptedBeforeWorkAbsentOrPending ==
    [][\A p \in Passes, i \in Steps :
         PolledAsserted(p, i) /\ OneAtATime(p)' =>
            /\ StatusAt(db', KeyOfCall(passes'[p], i)) \in {"absent", PENDING}
            /\ passes'[p].pc = "interrupted"]_vars

(***************************************************************************)
(* C3 as amended: when a step finds the signal asserted at one of its two  *)
(* polls (both precede the work), its work is not invoked, it ends with    *)
(* the interrupted outcome and writes nothing, so that its record stays as *)
(* it was: absent, or RUNNING once the step (or an earlier pass) had       *)
(* written it, or what an earlier pass left; and the pass has ended,       *)
(* reporting Interrupted unless it had already ended on a sibling branch.  *)
(***************************************************************************)
InterruptedBeforeWork ==
    [][\A p \in Passes, i \in Steps :
         PolledAsserted(p, i) =>
            /\ passes'[p].spc[i] = "rejected"
            /\ passes'[p].serr[i] = WORKFLOW_INTERRUPTED
            /\ ~passes'[p].ran[i]
            /\ RecAt(db', KeyOfCall(passes'[p], i)) = RecAt(db, KeyOfCall(passes'[p], i))
            /\ passes[p].spc[i] = "delay" /\ OneAtATime(p)' =>
                  StatusAt(db', KeyOfCall(passes'[p], i)) = RUNNING
            /\ MainEnded(passes'[p])
            /\ ~MainEnded(passes[p]) => passes'[p].pc = "interrupted"]_vars

\* A step was aborted by the signal after its RUNNING record was written:
\* the record is RUNNING and the pass reported Interrupted.
InterruptedBeforeWorkWitness ==
    \E p \in Passes, i \in Steps :
       /\ passes[p].spc[i] = "rejected"
       /\ passes[p].serr[i] = WORKFLOW_INTERRUPTED
       /\ ~passes[p].ran[i]
       /\ isCrashedRef /\ OneAtATime(p)
       /\ passes[p].pc = "interrupted"
       /\ StatusAt(db, KeyOfCall(passes[p], i)) = RUNNING

PassActs(p) ==
    \E i \in Steps :
       \/ passes'[p].ran[i] # passes[p].ran[i]
       \/ /\ passes'[p].spc[i] # passes[p].spc[i]
          /\ RecAt(db', KeyOfCall(passes'[p], i)) # RecAt(db, KeyOfCall(passes'[p], i))

(***************************************************************************)
(* C5 as stated: whenever a step's work raises an error, the step's record *)
(* becomes FAILED with the error's message and the pass reports the step   *)
(* failure; and once a pass has reported a failure it invokes no other     *)
(* work and writes no other record.                                        *)
(***************************************************************************)
StepFailureStopsPass ==
    [][\A p \in Passes :
         /\ \A i \in Steps : \A m \in ErrorMessages :
               WorkRaises(p, i) /\ passes'[p].serr[i] = m /\ OneAtATime(p)' =>
                  /\ RecAt(db', KeyOfCall(passes[p], i)) =
                        <<StepRecordOf(KeyOfCall(passes[p], i), labels[i], passes[p].seq[i],
                                       FAILED, Null, m)>>
                  /\ ~MainEnded(passes[p]) => passes'[p].pc = "failed" /\ passes'[p].failMsg = m
         /\ passes[p].pc = "failed" => ~PassActs(p)]_vars

(***************************************************************************)
(* C6 as stated: a step aborted by the signal gets no FAILED record and    *)
(* its pass reports Interrupted; every error raised by a step's work,      *)
(* whatever its message, is recorded FAILED and reported as a step         *)
(* failure, never as Interrupted.                                          *)
(***************************************************************************)
InterruptedAndFailureDistinct ==
    [][\A p \in Passes, i \in Steps :
         /\ PolledAsserted(p, i) /\ OneAtATime(p)' =>
               /\ StatusAt(db', KeyOfCall(passes'[p], i)) # FAILED
                     \/ RecAt(db', KeyOfCall(passes'[p], i)) = RecAt(db, KeyOfCall(passes'[p], i))
               /\ ~MainEnded(passes[p]) => passes'[p].pc = "interrupted"
         /\ WorkRaises(p, i) /\ OneAtATime(p)' =>
               /\ StatusAt(db', KeyOfCall(passes[p], i)) = FAILED
               /\ ~MainEnded(passes[p]) => passes'[p].pc = "failed"]_vars

(***************************************************************************)
(* C7. In parallel the sequence numbers are assigned in input order, all   *)
(* of them before any branch's work is invoked: as soon as one branch has  *)
(* been called both have their numbers, 2 for the first branch and 3 for   *)
(* the second, whichever branch finishes first and whichever is memoized.  *)
(***************************************************************************)
ParallelSequenceOrder ==
    \A p \in Passes :
       (\E b \in Branches : passes[p].spc[b] # "none" \/ passes[p].ran[b]) =>
          /\ \A b \in Branches : passes[p].spc[b] # "none" /\ passes[p].seq[b] = b
          /\ passes[p].seq[2] < passes[p].seq[3]
          /\ passes[p].sequenceCounter >= 3

\* The second branch finished first while the first is still at work, after
\* both numbers were assigned in input order.
ParallelSequenceOrderWitness ==
    /\ WorkReturned(passes[1], 3) /\ passes[1].spc[2] = "work"
    /\ passes[1].seq[2] = 2 /\ passes[1].seq[3] = 3

(***************************************************************************)
(* C8. parallel is fail-fast: it fails in the very step in which a branch  *)
(* is rejected (interrupted or failed), with that branch's error, while    *)
(* siblings may still be pending; what the siblings do afterwards changes  *)
(* nothing of the pass's outcome; and runWorkflow gets past parallel only  *)
(* when every branch has succeeded.                                        *)
(***************************************************************************)
ParallelFailFast ==
    [][\A p \in Passes :
         /\ \A b \in Branches :
               (/\ ~MainEnded(passes[p])
                /\ passes[p].spc[b] # "rejected" /\ passes'[p].spc[b] = "rejected"
                /\ \A c \in Branches : passes[p].spc[c] # "rejected") =>
                  /\ MainEnded(passes'[p])
                  /\ passes'[p].spc[4] = "none"
                  /\ \E c \in Branches :
                        /\ passes'[p].spc[c] = "rejected"
                        /\ passes'[p].failMsg = passes'[p].serr[c]
                        /\ passes'[p].pc = IF passes'[p].serr[c] = WORKFLOW_INTERRUPTED
                                           THEN "interrupted" ELSE "failed"
         /\ MainEnded(passes[p]) =>
               passes'[p].pc = passes[p].pc /\ passes'[p].failMsg = passes[p].failMsg
         /\ passes'[p].spc[4] # "none" => \A b \in Branches : passes'[p].spc[b] = "resolved"]_vars

\* parallel has failed on one branch while the other is still pending.
ParallelFailFastWitness ==
    \E p \in Passes, b \in Branches, c \in Branches :
       /\ passes[p].pc = "failed"
       /\ passes[p].spc[b] = "rejected" /\ passes[p].failMsg = passes[p].serr[b]
       /\ passes[p].spc[c] \in {"delay", "work"}

(***************************************************************************)
(* C9. parallel returns its results in input order: result k is the result *)
(* of branch k, the stored one when the branch was memoized and the one    *)
(* its work returned otherwise, in whatever order the branches finished.   *)
(***************************************************************************)
ParallelPositional ==
    \A p \in Passes :
       passes[p].spc[4] # "none" =>
          /\ Len(passes[p].parRet) = 2
          /\ \A k \in 1..2 :
                LET b == k + 1
                    ex == FindExisting(passes[p].ctxDb, WORKFLOW_ID, KeyOfCall(passes[p], b))
                IN passes[p].parRet[k] =
                      IF passes[p].ran[b] THEN WorkResult(b) ELSE passes[p].ctxDb[ex].result

\* parallel returned with the second branch memoized (finished at once) and
\* the first one executed.
ParallelPositionalWitness ==
    \E p \in Passes :
       /\ OneAtATime(p)
       /\ passes[p].spc[4] # "none"
       /\ passes[p].ran[2] /\ ~passes[p].ran[3]
       /\ passes[p].parRet = <<WorkResult(2), WorkResult(3)>>

(***************************************************************************)
(* C10. When the same label is used for several step calls of one pass,    *)
(* the calls get distinct sequence numbers and distinct stepKeys, and      *)
(* every call that wrote a record has a record of its own in the store     *)
(* (one pass at a time).                                                   *)
(***************************************************************************)
RepeatedLabelsDistinct ==
    \A p \in Passes :
       /\ \A i \in Steps, j \in Steps :
             (i # j /\ passes[p].spc[i] # "none" /\ passes[p].spc[j] # "none") =>
                /\ passes[p].seq[i] # passes[p].seq[j]
                /\ KeyOfCall(passes[p], i) # KeyOfCall(passes[p], j)
       /\ OneAtATime(p) =>
             \A i \in Steps :
                passes[p].spc[i] \in {"delay", "work"} \/ passes[p].ran[i] =>
                   /\ FindIndex(db, KeyOfCall(passes[p], i)) >= 1
                   /\ db[FindIndex(db, KeyOfCall(passes[p], i))].sequence = passes[p].seq[i]
                   /\ db[FindIndex(db, KeyOfCall(passes[p], i))].id = labels[i]

\* One label used four times in a pass: four sequence numbers, four records.
RepeatedLabelsDistinctWitness ==
    \E p \in Passes :
       /\ \A i \in Steps : labels[i] = labels[1] /\ passes[p].ran[i]
       /\ Cardinality({passes[p].seq[i] : i \in Steps}) = 4
       /\ Cardinality({db[k].stepKey : k \in 1..Len(db)}) = 4

\* No pass has been in flight together with another one so far.
NoOverlap == OneAtATime(MaxPasses)

\* The RUNNING record a step call writes under stepKey.
RunningRecordAt(d, stepKey) ==
    StepRecordOf(stepKey, d[FindIndex(d, stepKey)].id, d[FindIndex(d, stepKey)].sequence,
                 RUNNING, Null, Undefined)

(***************************************************************************)
(* C11 as stated: a record's status only moves forward, and a record that  *)
(* is COMPLETED or FAILED is not changed by any later write, of the same   *)
(* pass or of a later pass (passes running one at a time).                 *)
(***************************************************************************)
TerminalRecordsFinal ==
    [][\A k \in 1..Len(db) :
         /\ db[k].status = RUNNING =>
               StatusAt(db', db[k].stepKey) \in {RUNNING, COMPLETED, FAILED}
         /\ db[k].status \in {COMPLETED, FAILED} /\ NoOverlap' =>
               RecAt(db', db[k].stepKey) = <<db[k]>>]_vars

(***************************************************************************)
(* C11 as amended: a record is created RUNNING, no record is ever PENDING  *)
(* and no record disappears; a pass never writes a record that was         *)
(* COMPLETED in the store it was started with.  With passes running one at *)
(* a time a COMPLETED record is final, while a FAILED record is not: it    *)
(* stays as it is until a later pass runs the step again and overwrites it *)
(* with a fresh RUNNING record.                                            *)
(***************************************************************************)
StatusTransitions ==
    [][/\ \A k \in 1..Len(db') :
             /\ db'[k].status # PENDING
             /\ StatusAt(db, db'[k].stepKey) = "absent" => db'[k].status = RUNNING
       /\ \A k \in 1..Len(db) : StatusAt(db', db[k].stepKey) # "absent"
       /\ \A p \in Passes, i \in Steps :
             passes'[p].spc[i] # passes[p].spc[i] /\ FoundCompleted(passes'[p], i) =>
                RecAt(db', KeyOfCall(passes'[p], i)) = RecAt(db, KeyOfCall(passes'[p], i))
       /\ NoOverlap' =>
             \A k \in 1..Len(db) :
                /\ db[k].status = COMPLETED => RecAt(db', db[k].stepKey) = <<db[k]>>
                /\ db[k].status = FAILED =>
                      RecAt(db', db[k].stepKey) \in
                         {<<db[k]>>, <<RunningRecordAt(db, db[k].stepKey)>>}]_vars

\* A step failed in one pass and the next pass, started after the first had
\* ended, has overwritten its FAILED record with RUNNING.
StatusTransitionsWitness ==
    \E i \in Steps :
       /\ OneAtATime(2)
       /\ passes[1].ran[i] /\ passes[1].spc[i] = "rejected" /\ passes[1].serr[i] = "boom"
       /\ StatusAt(passes[2].ctxDb, KeyOfCall(passes[1], i)) = FAILED
       /\ passes[2].spc[i] = "delay"
       /\ StatusAt(db, KeyOfCall(passes[2], i)) = RUNNING

\* The step calls pass P has made so far.
CalledSteps(P) == {i \in Steps : P.spc[i] # "none"}

(***************************************************************************)
(* C12. Sequence allocator: in every pass the k-th step call gets sequence *)
(* number k, counting from 1 (the calls are made in source order), whether *)
(* the call was a memoized hit or an execution; the counter equals the     *)
(* number of calls made; every pass, first run or resume, starts counting  *)
(* from 1 whatever the earlier passes' counters and the store are.         *)
(***************************************************************************)
SequenceAllocator ==
    \A p \in Passes :
       /\ passes[p].sequenceCounter = Cardinality(CalledSteps(passes[p]))
       /\ \A i \in Steps :
             passes[p].seq[i] =
                IF i \in CalledSteps(passes[p])
                THEN Cardinality({j \in CalledSteps(passes[p]) : j <= i})
                ELSE 0
       /\ \A i \in CalledSteps(passes[p]), j \in CalledSteps(passes[p]) :
             i < j => passes[p].seq[i] < passes[p].seq[j]
       /\ passes[p].pc # "idle" => passes[p].seq[1] = 1

\* A resume pass counted 1..4 from scratch, its first three calls being
\* memoized hits, after a pass whose counter had stopped at 4.
SequenceAllocatorWitness ==
    /\ passes[1].sequenceCounter = 4 /\ passes[1].pc = "interrupted"
    /\ passes[2].sequenceCounter = 4
    /\ \A i \in 1..3 : ~passes[2].ran[i] /\ passes[2].spc[i] = "resolved"
    /\ passes[2].ran[4] /\ passes[2].seq = [i \in Steps |-> i]

(***************************************************************************)
(* C13 as stated: the key of a record includes the workflow execution id,  *)
(* so that a record of one execution is only ever replaced by a record of  *)
(* the same execution and the same label and sequence number, and a record *)
(* an execution has written stays visible to its lookup whatever the other *)
(* execution writes.                                                       *)
(***************************************************************************)
KeyedByExecution ==
    [][\A k \in 1..Len(db) :
         /\ \/ \E m \in 1..Len(db') : db'[m] = db[k]
            \/ \E m \in 1..Len(db') :
                  /\ db'[m].workflowId = db[k].workflowId
                  /\ db'[m].id = db[k].id
                  /\ db'[m].sequence = db[k].sequence
         /\ FindExisting(db', db[k].workflowId, db[k].stepKey) >= 1]_vars

\* In this step, step call i of pass p, which has written its RUNNING record,
\* ends: aborted when its timer fires, or because its work has ended.
StepEnds(p, i) ==
    /\ passes[p].spc[i] \in {"delay", "work"}
    /\ passes'[p].spc[i] \in {"resolved", "rejected"}

Called(p, i) == passes[p].spc[i] = "none" /\ passes'[p].spc[i] # "none"

\* The status step call i of pass P found in the store P was started with.
FoundStatus(P, i) == StatusAt(P.ctxDb, KeyOfCall(P, i))

(***************************************************************************)
(* C15. A step call that finds its record RUNNING or FAILED in the store   *)
(* its pass was started with does not trust it: it never returns a value   *)
(* without invoking its work; unless it finds the signal asserted at the   *)
(* call, it overwrites the record with a fresh RUNNING record under the    *)
(* same stepKey (same label, same sequence number), and when its timer     *)
(* fires with the signal not asserted it invokes the work.                 *)
(***************************************************************************)
UntrustedRecordsRetried ==
    [][\A p \in Passes, i \in Steps :
         /\ Called(p, i) /\ FoundStatus(passes'[p], i) \in {RUNNING, FAILED} =>
               IF PolledAtCall(i)
               THEN /\ passes'[p].spc[i] = "rejected"
                    /\ RecAt(db', KeyOfCall(passes'[p], i)) = RecAt(db, KeyOfCall(passes'[p], i))
               ELSE /\ passes'[p].spc[i] = "delay"
                    /\ passes'[p].seq[i] = passes'[p].ctxDb[FindIndex(passes'[p].ctxDb,
                                                           KeyOfCall(passes'[p], i))].sequence
                    /\ RecAt(db', KeyOfCall(passes'[p], i)) =
                          <<StepRecordOf(KeyOfCall(passes'[p], i), labels[i], passes'[p].seq[i],
                                         RUNNING, Null, Undefined)>>
         /\ (/\ FoundStatus(passes[p], i) \in {RUNNING, FAILED}
             /\ passes[p].spc[i] = "delay" /\ passes'[p].spc[i] # "delay"
             /\ ~isCrashedRef) =>
               passes'[p].spc[i] = "work" /\ passes'[p].ran[i]
         /\ (/\ passes'[p].spc[i] = "resolved"
             /\ FoundStatus(passes'[p], i) \in {RUNNING, FAILED}) =>
               passes'[p].ran[i]]_vars

\* A step that failed in the first pass was executed again by the resume
\* pass, without any request for a retry, and is now COMPLETED.
UntrustedRecordsRetriedWitness ==
    \E i \in Steps :
       /\ OneAtATime(2)
       /\ passes[1].spc[i] = "rejected" /\ passes[1].serr[i] = "boom"
       /\ FoundStatus(passes[2], i) = FAILED
       /\ WorkReturned(passes[2], i)
       /\ StatusAt(db, KeyOfCall(passes[2], i)) = COMPLETED

(***************************************************************************)
(* C16. Replay stability, for the workflow whose steps share one label: a  *)
(* step call has the same sequence number and the same stepKey in every    *)
(* pass that makes it, however the earlier passes ended and whatever the   *)
(* store holds; the record its lookup finds is the record of that same     *)
(* step (its label, its sequence number, and its result when COMPLETED),   *)
(* and a step that returns returns its own result.                         *)
(***************************************************************************)
ReplayStable ==
    /\ \A p \in Passes, q \in Passes, i \in Steps :
          i \in CalledSteps(passes[p]) /\ i \in CalledSteps(passes[q]) =>
             /\ passes[p].seq[i] = passes[q].seq[i]
             /\ KeyOfCall(passes[p], i) = KeyOfCall(passes[q], i)
    /\ \A p \in Passes : \A i \in CalledSteps(passes[p]) :
          LET ex == FindExisting(passes[p].ctxDb, WORKFLOW_ID, KeyOfCall(passes[p], i))
          IN /\ ex >= 1 =>
                   /\ passes[p].ctxDb[ex].id = labels[i]
                   /\ passes[p].ctxDb[ex].sequence = i
                   /\ passes[p].ctxDb[ex].status = COMPLETED =>
                         passes[p].ctxDb[ex].result = WorkResult(i)
             /\ passes[p].spc[i] = "resolved" => passes[p].ret[i] = WorkResult(i)

\* Under one label for all steps, a resume pass after an interrupted pass
\* found the records of the first three steps, each under its own number,
\* and returned each step's own result.
ReplayStableWitness ==
    /\ \A i \in Steps : labels[i] = labels[1]
    /\ passes[1].pc = "interrupted"
    /\ \A i \in 1..3 :
          /\ FoundCompleted(passes[2], i) /\ ~passes[2].ran[i]
          /\ passes[2].ret[i] = WorkResult(i)
          /\ passes[2].seq[i] = passes[1].seq[i]
    /\ passes[2].spc[4] # "none" /\ ~FoundCompleted(passes[2], 4)

(***************************************************************************)
(* C17 as stated: at most one pass is in flight at any time: no pass is    *)
(* started while an earlier pass still has a step that can invoke its work *)
(* or write a record.                                                      *)
(***************************************************************************)
SinglePassInFlight ==
    Cardinality({p \in Passes : Live(passes[p])}) <= 1

(***************************************************************************)
(* C18 as stated: a pass started by Run/Resume does not observe a crash    *)
(* signalled before it started: none of the step calls made in the click   *)
(* that starts it is aborted by the signal, and the pass is not reported   *)
(* Interrupted in that click (also with no other pass in flight).          *)
(***************************************************************************)
ResumeIgnoresEarlierCrash ==
    [][\A p \in Passes :
         passes[p].pc = "idle" /\ passes'[p].pc # "idle" /\ OneAtATime(p)' =>
            /\ passes'[p].pc # "interrupted"
            /\ \A i \in Steps : passes'[p].spc[i] # "rejected"]_vars

\* In this step, step call i of pass p writes a record: its RUNNING record
\* at the call, or a terminal record when its work has ended.
WritesRunning(p, i) == Called(p, i) /\ passes'[p].spc[i] = "delay"
WritesTerminal(p, i) ==
    /\ WorkEnds(p, i)
    /\ ~(passes'[p].spc[i] = "rejected" /\ passes'[p].serr[i] = WORKFLOW_INTERRUPTED)

(***************************************************************************)
(* C19. The store writes of one step invocation.  An invocation goes       *)
(* through call, delay, work and end once each, in this order.  At the     *)
(* call, a memoized hit and an abort at the first poll leave the step's    *)
(* record as it is; otherwise the call puts the RUNNING record under the   *)
(* step's key, and the work is invoked only after that.  Between the call  *)
(* and the end of the work nothing is written.  The end of the work writes *)
(* at most one record, COMPLETED or FAILED, under the same key.  A record  *)
(* changes or appears in a step only under the key of an invocation that   *)
(* writes in that step; all other records keep their content and place.    *)
(***************************************************************************)
StepWrites ==
    [][/\ \A p \in Passes, i \in Steps :
             /\ passes'[p].spc[i] # passes[p].spc[i] =>
                   \/ Called(p, i) /\ passes'[p].spc[i] \in {"resolved", "rejected", "delay"}
                   \/ passes[p].spc[i] = "delay" /\ passes'[p].spc[i] \in {"work", "rejected"}
                   \/ passes[p].spc[i] = "work" /\ passes'[p].spc[i] \in {"resolved", "rejected"}
             /\ Called(p, i) /\ passes'[p].spc[i] # "delay" =>
                   RecAt(db', KeyOfCall(passes'[p], i)) = RecAt(db, KeyOfCall(passes'[p], i))
             /\ WritesRunning(p, i) =>
                   /\ ~passes'[p].ran[i]
                   /\ RecAt(db', KeyOfCall(passes'[p], i)) =
                         <<StepRecordOf(KeyOfCall(passes'[p], i), labels[i], passes'[p].seq[i],
                                        RUNNING, Null, Undefined)>>
             /\ passes'[p].ran[i] /\ ~passes[p].ran[i] =>
                   passes[p].spc[i] = "delay" /\ passes'[p].spc[i] = "work"
             /\ passes[p].spc[i] = "delay" /\ passes'[p].spc[i] # "delay" => db' = db
             /\ WorkEnds(p, i) =>
                   /\ passes[p].ran[i]
                   /\ IF WritesTerminal(p, i)
                      THEN db'[FindIndex(db', KeyOfCall(passes[p], i))].status =
                              IF passes'[p].spc[i] = "resolved" THEN COMPLETED ELSE FAILED
                      ELSE RecAt(db', KeyOfCall(passes[p], i)) = RecAt(db, KeyOfCall(passes[p], i))
       /\ Len(db') >= Len(db)
       /\ \A k \in 1..Len(db') :
             (k > Len(db) \/ db'[k] # db[IF k <= Len(db) THEN k ELSE 1]) =>
                /\ k <= Len(db) => db'[k].stepKey = db[k].stepKey
                /\ \E p \in Passes, i \in Steps :
                      /\ db'[k].stepKey = KeyOfCall(passes'[p], i)
                      /\ WritesRunning(p, i) \/ WritesTerminal(p, i)]_vars

\* One pass, alone in flight, with a memoized hit that wrote nothing, a step
\* that wrote RUNNING and then COMPLETED, and a step aborted at its first
\* poll that wrote nothing.
StepWritesWitness ==
    \E p \in Passes :
       /\ OneAtATime(p)
       /\ FoundCompleted(passes[p], 1) /\ ~passes[p].ran[1]
       /\ FoundStatus(passes[p], 2) # COMPLETED
       /\ WorkReturned(passes[p], 2)
       /\ StatusAt(db, KeyOfCall(passes[p], 2)) = COMPLETED
       /\ passes[p].spc[4] = "rejected" /\ ~passes[p].ran[4]
       /\ StatusAt(db, KeyOfCall(passes[p], 4)) = "absent"

\* In this step pass p reports success to its caller.
ReportsSuccess(p) == passes[p].pc # "success" /\ passes'[p].pc = "success"

(***************************************************************************)
(* C20, termination: every pass that was started eventually ends, with     *)
(* success, with a step failure or interrupted.                            *)
(***************************************************************************)
EveryPassEnds ==
    \A p \in Passes : (passes[p].pc # "idle") ~> MainEnded(passes[p])

(***************************************************************************)
(* C20, outcome: a pass that has ended keeps the one outcome it reported.  *)
(***************************************************************************)
OneOutcome ==
    [][\A p \in Passes : MainEnded(passes[p]) => passes'[p].pc = passes[p].pc]_vars

(***************************************************************************)
(* C20 as stated, success: when a pass reports success, every step of the  *)
(* workflow has a COMPLETED record in the store.                           *)
(***************************************************************************)
SuccessMeansAllCompleted ==
    [][\A p \in Passes :
         ReportsSuccess(p) =>
            \A i \in Steps : StatusAt(db', StepKey(labels[i], i)) = COMPLETED]_vars

(***************************************************************************)
(* C21. In every reachable state of the store every record has a sequence  *)
(* number of at least 1, no two records have the same stepKey, and no two  *)
(* records of the same workflow execution id have the same sequence        *)
(* number, whatever passes, crashes and resumes have happened.             *)
(***************************************************************************)
StoreRecordsUnique ==
    /\ \A k \in 1..Len(db) : db[k].sequence >= 1
    /\ \A k \in 1..Len(db), m \in 1..Len(db) :
          k # m =>
             /\ db[k].stepKey # db[m].stepKey
             /\ db[k].workflowId = db[m].workflowId => db[k].sequence # db[m].sequence

\* The store after a pass that was interrupted and a resume that succeeded,
\* one of its records written by both passes: four records.
StoreRecordsUniqueWitness ==
    /\ passes[1].pc = "interrupted" /\ passes[2].pc = "success"
    /\ \E i \in Steps : passes[1].spc[i] = "rejected" /\ passes[2].ran[i]
                        /\ StatusAt(passes[2].ctxDb, KeyOfCall(passes[2], i)) = RUNNING
    /\ Len(db) = 4

(***************************************************************************)
(* C22. In every reachable state a record carries a result only when it is *)
(* COMPLETED and an error message only when it is FAILED: a RUNNING record *)
(* has the result null and no error, also when it has overwritten a FAILED *)
(* record; a FAILED record has the result null and its error message; a    *)
(* COMPLETED record has no error.                                          *)
(***************************************************************************)
PayloadOnlyWhenTerminal ==
    \A k \in 1..Len(db) :
       /\ db[k].result # Null => db[k].status = COMPLETED
       /\ db[k].error # Undefined => db[k].status = FAILED
       /\ db[k].status = RUNNING => db[k].result = Null /\ db[k].error = Undefined
       /\ db[k].status = FAILED => db[k].error \in {ErrorText(m) : m \in ErrorMessages}

\* A record that a pass found FAILED with its error message is RUNNING again,
\* without result and without error.
PayloadOnlyWhenTerminalWitness ==
    \E i \in Steps :
       LET key == KeyOfCall(passes[2], i)
       IN /\ passes[2].spc[i] \in {"delay", "work"}
          /\ FoundStatus(passes[2], i) = FAILED
          /\ passes[2].ctxDb[FindIndex(passes[2].ctxDb, key)].error = "boom"
          /\ RecAt(db, key) =
                <<StepRecordOf(key, labels[i], passes[2].seq[i], RUNNING, Null, Undefined)>>

(***************************************************************************)
(* C23 as stated: Reset State empties the store, and an empty store stays  *)
(* empty until a new pass is started: a pass in flight at the time of the  *)
(* reset writes no record afterwards.                                      *)
(***************************************************************************)
ResetKeepsStoreEmpty ==
    [][/\ ClearStorage => db' = <<>>
       /\ (db = <<>> /\ Started' = Started) => db' = <<>>]_vars

TypeOK ==
    /\ isRunning \in BOOLEAN
    /\ isCrashed \in BOOLEAN
    /\ isCrashedRef \in BOOLEAN
    /\ \A k \in 1..Len(db) : db[k].status \in StepStatus
====
